---- MODULE Spec2Model ----
(***************************************************************************)
(* A model of the two batch scripts of BDO-REST-API:                       *)
(*   scripts/prewarm_guilds.py  (cache prewarming: http_get_json,          *)
(*                               wait_for_200, list(dict.fromkeys()),      *)
(*                               is_valid_search_query, main)              *)
(*   scripts/proxy_filter.py    (proxy validation: fetch_proxy_list,       *)
(*                               test_proxy, main)                         *)
(* Time is counted in whole seconds.  Python's None is the value NoneV.    *)
(* Strings that the code inspects character by character are sequences of  *)
(* code points.                                                            *)
(***************************************************************************)
EXTENDS Integers, Sequences, FiniteSets, TLC

VARIABLES
    \* ---- wait_for_200 (the current call of the polling engine) ----
    pollpc,        \* "idle" | "running" | "returned"
    url,           \* argument url: [endpoint, name, query]
    max_attempts,  \* argument max_attempts (args.max_attempts in main)
    delay,         \* argument delay, seconds (args.delay in main)
    attempt,       \* loop variable of range(1, max_attempts + 1)
    last_status,   \* local last_status
    result,        \* the value returned by wait_for_200
    hint,          \* whether the final failure line carries "(connection failed?)"
    hist,          \* the statuses http_get_json returned, one per attempt of this call
    sleeps,        \* the durations of the time.sleep calls of this call, in order
    lastResp,      \* what the network did on the latest attempt
    lastOutcome,   \* what http_get_json returned on the latest attempt
    got200,        \* some attempt of this call received an HTTP 200 response
    requests,      \* the urls for which a GET has been issued
    profile_gets,  \* the number of GETs issued to /v1/adventurer
    \* ---- list(dict.fromkeys(xs)) applied to one input ----
    dd_pc,         \* "idle" | "start" | "done"
    dd_in,         \* the input sequence xs
    dd_out,        \* the list built from it
    \* ---- is_valid_search_query applied to one input ----
    q_pc,          \* "idle" | "start" | "done"
    q_in,          \* the query, a sequence of code points
    q_valid,       \* the boolean returned
    \* ---- test_proxy applied to one probe ----
    tp_pc,         \* "idle" | "start" | "done"
    tp_probe,      \* what the network does on the probe request
    tp_ok,         \* the boolean returned
    \* ---- main of prewarm_guilds.py ----
    mainpc,        \* the position of main
    warm_search,   \* args.warm_search
    gi,            \* position of the guild loop in the roster
    all_profile_targets,
    all_family_names,
    unique_profile_targets,
    failed_profile_targets,
    pidx,          \* idx of the profile loop
    unique_family_names,
    failed_searches,
    sidx,          \* idx of the search loop
    files,         \* the failure files written so far: name -> lines
    polls,         \* the urls wait_for_200 was called with, in order
    throttles,     \* the urls after whose poll time.sleep(args.throttle) ran, in order
    returns,       \* the values wait_for_200 returned to main, one per entry of polls
    \* ---- main of proxy_filter.py ----
    px_pc,         \* "idle" | "start" | "loop" | "exited" | "crashed"
    px_source,     \* what the proxy source serves: the lines of the text, or an error
    limit,         \* args.limit
    proxies,       \* the candidate list
    px_i,          \* position of the for loop in proxies
    tested,
    working,
    probed,        \* the positions of the candidates test_proxy was called on, in order
    verdicts,      \* the verdicts of those calls, in order
    px_sleeps,     \* the number of time.sleep(args.sleep) calls
    exit_code,     \* the process exit status (-1 while running)
    out_file       \* the lines written to args.out (<<>> when not written)

pollvars == <<pollpc, url, max_attempts, delay, attempt, last_status, result, hint,
              hist, sleeps, lastResp, lastOutcome, got200, requests, profile_gets>>

ddvars == <<dd_pc, dd_in, dd_out>>

qvars == <<q_pc, q_in, q_valid>>

tpvars == <<tp_pc, tp_probe, tp_ok>>

mainvars == <<mainpc, warm_search, gi, all_profile_targets, all_family_names,
              unique_profile_targets, failed_profile_targets, pidx,
              unique_family_names, failed_searches, sidx, files, polls, throttles,
              returns>>

pxvars == <<px_pc, px_source, limit, proxies, px_i, tested, working, probed,
            verdicts, px_sleeps, exit_code, out_file>>

vars == <<pollvars, ddvars, qvars, tpvars, mainvars, pxvars>>

\* ------------------------------------------------------------------ bounds
\* wait_for_200 on its own: max_attempts in 0..MaxAttempts, delay in 0..MaxDelay.
MaxAttempts == 3
MaxDelay == 3
\* Deduplication inputs have at most MaxLen elements.
MaxLen == 4
\* Queries have at most MaxQueryLen characters.
MaxQueryLen == 17
\* The prewarm run: the first NumGuilds guilds of the roster, max_attempts in
\* 1..WarmAttempts.
NumGuilds == 2
WarmAttempts == 2
\* The proxy run: a source of at most MaxLines lines, limit in -1..MaxLimit.
MaxLines == 5
MaxLimit == 3

\* ------------------------------------------------------------------ values
Max(a, b) == IF a >= b THEN a ELSE b
Min(a, b) == IF a <= b THEN a ELSE b
Range(s) == {s[i] : i \in 1..Len(s)}

RECURSIVE SeqsUpTo(_, _)
SeqsUpTo(S, n) ==
    IF n = 0 THEN {<<>>}
    ELSE LET shorter == SeqsUpTo(S, n - 1) IN
         shorter \cup {Append(t, x) : t \in {u \in shorter : Len(u) = n - 1}, x \in S}

\* Family names, as code points: "abc", "J_1", "ab" (too short), "j d" (space).
FnAbc == <<97, 98, 99>>
FnJ1 == <<74, 95, 49>>
FnAb == <<97, 98>>
FnSpace == <<106, 32, 100>>

\* A member of a guild record; has_pt / has_fn say whether the key is there.
Member(hp, p, hf, f) == [has_pt |-> hp, pt |-> p, has_fn |-> hf, fn |-> f]

\* Python values that a parsed JSON body can be.  t = "none" is None (also what
\* the JSON text null parses to); "dict" is a JSON object, truthy iff it has a
\* key; has_members says whether it has the key "members".
NoneV == [t |-> "none", truthy |-> FALSE, has_members |-> FALSE, members |-> <<>>]
EmptyDict == [t |-> "dict", truthy |-> FALSE, has_members |-> FALSE, members |-> <<>>]
SomeDict == [t |-> "dict", truthy |-> TRUE, has_members |-> FALSE, members |-> <<>>]
GuildDict(ms) == [t |-> "dict", truthy |-> TRUE, has_members |-> TRUE, members |-> ms]

\* Three guild records: one member with only a profileTarget and one with only
\* a familyName; four members with repeated, empty and missing fields; no
\* member.
GuildA == GuildDict(<<Member(TRUE, "p1", FALSE, <<>>), Member(FALSE, "", TRUE, FnAbc)>>)
GuildB ==
    GuildDict(<<Member(TRUE, "p1", TRUE, FnAb), Member(TRUE, "p2", TRUE, FnAbc),
                Member(TRUE, "", TRUE, FnSpace), Member(FALSE, "", TRUE, FnJ1)>>)
GuildC == GuildDict(<<>>)

\* Payload texts of an HTTP response: the empty payload, a text that is not
\* JSON, and JSON texts (null, the empty object, an object without members,
\* the three guild records).
Payloads == {"", "<html>", "null", "{}", "{..}"}
GuildPayloads == {"guildA", "guildB", "guildC"}

\* json.loads on a non-empty payload: ok = FALSE stands for the raised
\* JSONDecodeError.
json_loads(body) ==
    CASE body = "null" -> [ok |-> TRUE, value |-> NoneV]
      [] body = "{}" -> [ok |-> TRUE, value |-> EmptyDict]
      [] body = "{..}" -> [ok |-> TRUE, value |-> SomeDict]
      [] body = "guildA" -> [ok |-> TRUE, value |-> GuildA]
      [] body = "guildB" -> [ok |-> TRUE, value |-> GuildB]
      [] body = "guildC" -> [ok |-> TRUE, value |-> GuildC]
      [] OTHER -> [ok |-> FALSE, value |-> NoneV]

\* HTTP status codes the server may answer with.
HttpCodes == {200, 201, 202, 404, 429, 500, 503}

\* What the network does on one GET: no response at all (DNS, connect,
\* timeout, TLS), or a response with a status code and a payload.
Response(c, p) == [kind |-> "http", code |-> c, payload |-> p]
NoResponse == [kind |-> "none", code |-> 0, payload |-> ""]

\* The url of a poll of the engine on its own.
TestUrl == [endpoint |-> "/test", name |-> "", query |-> <<>>]
NoUrl == [endpoint |-> "", name |-> "", query |-> <<>>]

\* The answers the cache may give to a GET of u.  The engine on its own is
\* given every status with every payload.  In a prewarm run main looks only at
\* what the poll returns, so each endpoint answers with no response, 202, and
\* 200 with each kind of body: the guild endpoint with no body, the empty
\* object, an object without members and the three guild records; the other
\* endpoints with no body, a body that is not JSON, and an object.
ResponsesFor(u) ==
    IF u.endpoint = "/test"
    THEN {NoResponse} \cup {Response(c, p) : c \in HttpCodes, p \in Payloads}
    ELSE IF u.endpoint = "/v1/guild"
    THEN {NoResponse, Response(202, ""), Response(200, ""), Response(200, "{}"),
          Response(200, "{..}")}
         \cup {Response(200, p) : p \in GuildPayloads}
    ELSE {NoResponse, Response(202, ""), Response(200, ""), Response(200, "<html>"),
          Response(200, "{..}")}

\* urllib.request.urlopen returns a response for 2xx and raises HTTPError for
\* every other status.
RaisesHTTPError(code) == ~(code \in 200..299)

FetchOutcome(status, data, raw) == [status |-> status, data |-> data, raw |-> raw]

http_get_json(resp) ==
    IF resp.kind = "none"
    THEN FetchOutcome(0, NoneV, "")                          \* except Exception
    ELSE IF ~RaisesHTTPError(resp.code)
    THEN IF resp.payload = ""
         THEN FetchOutcome(resp.code, NoneV, "")             \* if not body
         ELSE IF json_loads(resp.payload).ok
         THEN FetchOutcome(resp.code, json_loads(resp.payload).value, "")
         ELSE FetchOutcome(0, NoneV, "")                     \* except Exception
    ELSE IF resp.payload = ""
    THEN FetchOutcome(resp.code, NoneV, resp.payload)
    ELSE IF json_loads(resp.payload).ok
    THEN FetchOutcome(resp.code, json_loads(resp.payload).value, resp.payload)
    ELSE FetchOutcome(resp.code, NoneV, "")                  \* inner except

\* ------------------------------------------------------------ wait_for_200
\* Faulty variants of BackoffDelay: the 429 class without its 5 second floor,
\* and the 5xx class adding the floor instead of taking the maximum.
BackoffDelay_NoFloor(status, d) ==
    IF status = 202 THEN d
    ELSE IF status = 429 THEN d * 2
    ELSE IF status \in {500, 503} \/ status = 0 THEN Max(10, d * 5)
    ELSE d

BackoffDelay_Additive(status, d) ==
    IF status = 202 THEN d
    ELSE IF status = 429 THEN Max(5, d * 2)
    ELSE IF status \in {500, 503} \/ status = 0 THEN 10 + d * 5
    ELSE d

\* Faulty variant of BackoffDelay: an unexpected status waits like a server
\* fault.
BackoffDelay_UnexpectedAsFault(status, d) ==
    IF status = 202 THEN d
    ELSE IF status = 429 THEN Max(5, d * 2)
    ELSE Max(10, d * 5)

\* The sleep wait_for_200 performs after an attempt whose status is not 200.
BackoffDelay(status, d) ==
    IF status = 202 THEN d
    ELSE IF status = 429 THEN Max(5, d * 2)
    ELSE IF status \in {500, 503} \/ status = 0 THEN Max(10, d * 5)
    ELSE d

\* for attempt in range(1, max_attempts + 1)
InRange(a, n) == a >= 1 /\ a <= n

\* Faulty variant of IsReady: any 2xx status taken as ready.
IsReady_Any2xx(status) == status \in 200..299

\* status == 200: return data
IsReady(status) == status = 200

\* The locals of a call of wait_for_200 at its entry.
PollLocals(pc, u) ==
    /\ pollpc' = pc
    /\ url' = u
    /\ attempt' = 1
    /\ last_status' = 0
    /\ result' = NoneV
    /\ hint' = FALSE
    /\ hist' = <<>>
    /\ sleeps' = <<>>
    /\ lastResp' = NoResponse
    /\ lastOutcome' = FetchOutcome(0, NoneV, "")
    /\ got200' = FALSE

\* main calls wait_for_200(u, label, args.max_attempts, args.delay).
PollEntry(u) ==
    /\ PollLocals("running", u)
    /\ UNCHANGED <<max_attempts, delay, requests, profile_gets>>

\* main has taken the value wait_for_200 returned: the call is over.
PollExit ==
    /\ PollLocals("idle", NoUrl)
    /\ UNCHANGED <<max_attempts, delay, requests, profile_gets>>

\* Faulty variant of wait_for_200_attempt: no sleep after the last attempt.
wait_for_200_attempt_NoFinalSleep ==
    /\ pollpc = "running"
    /\ InRange(attempt, max_attempts)
    /\ \E resp \in ResponsesFor(url) :
         LET out == http_get_json(resp) IN
         /\ lastResp' = resp
         /\ lastOutcome' = out
         /\ got200' = (got200 \/ (resp.kind = "http" /\ resp.code = 200))
         /\ requests' = requests \cup {url}
         /\ profile_gets' =
               profile_gets + (IF url.endpoint = "/v1/adventurer" THEN 1 ELSE 0)
         /\ last_status' = out.status
         /\ hist' = Append(hist, out.status)
         /\ IF IsReady(out.status)
            THEN /\ result' = out.data
                 /\ pollpc' = "returned"
                 /\ UNCHANGED <<attempt, sleeps>>
            ELSE /\ sleeps' = IF attempt = max_attempts
                              THEN sleeps
                              ELSE Append(sleeps, BackoffDelay(out.status, delay))
                 /\ attempt' = attempt + 1
                 /\ UNCHANGED <<result, pollpc>>
    /\ UNCHANGED <<url, max_attempts, delay, hint>>
    /\ UNCHANGED <<ddvars, qvars, tpvars, mainvars, pxvars>>

\* One iteration of the loop of wait_for_200: one http_get_json, then either
\* the return of the body or the sleep of the status class.
wait_for_200_attempt ==
    /\ pollpc = "running"
    /\ InRange(attempt, max_attempts)
    /\ \E resp \in ResponsesFor(url) :
         LET out == http_get_json(resp) IN
         /\ lastResp' = resp
         /\ lastOutcome' = out
         /\ got200' = (got200 \/ (resp.kind = "http" /\ resp.code = 200))
         /\ requests' = requests \cup {url}
         /\ profile_gets' =
               profile_gets + (IF url.endpoint = "/v1/adventurer" THEN 1 ELSE 0)
         /\ last_status' = out.status
         /\ hist' = Append(hist, out.status)
         /\ IF IsReady(out.status)
            THEN /\ result' = out.data
                 /\ pollpc' = "returned"
                 /\ UNCHANGED <<attempt, sleeps>>
            ELSE /\ sleeps' = Append(sleeps, BackoffDelay(out.status, delay))
                 /\ attempt' = attempt + 1
                 /\ UNCHANGED <<result, pollpc>>
    /\ UNCHANGED <<url, max_attempts, delay, hint>>
    /\ UNCHANGED <<ddvars, qvars, tpvars, mainvars, pxvars>>

\* The loop is exhausted: the final failure line, return None.
wait_for_200_fail ==
    /\ pollpc = "running"
    /\ ~InRange(attempt, max_attempts)
    /\ hint' = (last_status = 0)
    /\ result' = NoneV
    /\ pollpc' = "returned"
    /\ UNCHANGED <<url, max_attempts, delay, attempt, last_status, hist, sleeps,
                   lastResp, lastOutcome, got200, requests, profile_gets>>
    /\ UNCHANGED <<ddvars, qvars, tpvars, mainvars, pxvars>>

\* --------------------------------------------------- list(dict.fromkeys())
\* Identifiers of the deduplication inputs.
Ids == {"p1", "p2", "p3"}

\* Faulty variant of fromkeys: a key seen again moves to the end (the last
\* occurrence is kept instead of the first).
RECURSIVE fromkeys_KeepLast(_, _)
fromkeys_KeepLast(d, xs) ==
    IF xs = <<>> THEN d
    ELSE fromkeys_KeepLast(
             Append(SelectSeq(d, LAMBDA k : k # Head(xs)), Head(xs)), Tail(xs))

\* d[x] = None on the keys of a dict in insertion order: a new key goes to the
\* end, a key that is already present keeps its position.
setitem(d, x) == IF x \in Range(d) THEN d ELSE Append(d, x)

\* dict.fromkeys(xs) continued from the dict d: one insertion per element of
\* xs, in order.  The dict after an insertion is bound as a value (nd) before
\* the next insertion is made.
RECURSIVE fromkeys(_, _)
fromkeys(d, xs) ==
    IF xs = <<>> THEN d
    ELSE CHOOSE r \in {fromkeys(nd, Tail(xs)) : nd \in {setitem(d, Head(xs))}} : TRUE

\* Faulty variant of unique: the list as it is, repeated entries kept.
unique_NoDedup(xs) == xs

\* list(dict.fromkeys(xs))
unique(xs) == fromkeys(<<>>, xs)

DedupIdle == dd_pc = "idle" /\ dd_in = <<>> /\ dd_out = <<>>

DedupApply ==
    /\ dd_pc = "start"
    /\ dd_out' = unique(dd_in)
    /\ dd_pc' = "done"
    /\ UNCHANGED <<dd_in, pollvars, qvars, tpvars, mainvars, pxvars>>

\* --------------------------------------------------- is_valid_search_query
\* Code points: the ends of the ranges A-Z, a-z, 0-9, the underscore, the
\* neighbours of those ranges, newline, space, hyphen and a non-ASCII letter.
Alphabet == {10, 32, 45, 47, 48, 57, 58, 64, 65, 90, 91, 95, 96, 97, 122, 123, 233}

\* Queries: runs of the letter a of every length up to MaxQueryLen, with at
\* most one position holding any code point of Alphabet.
QueryInputs ==
    {<<>>} \cup
    UNION {{[i \in 1..n |-> IF i = p THEN c ELSE 97] : p \in 1..n, c \in Alphabet}
             : n \in 1..MaxQueryLen}

\* [A-Za-z0-9_]
InClass(c) ==
    \/ c >= 65 /\ c <= 90
    \/ c >= 97 /\ c <= 122
    \/ c >= 48 /\ c <= 57
    \/ c = 95

\* The greedy repetition {3,16}: how many class characters are taken from
\* position i on, having taken n, never more than 16.
RECURSIVE GreedyRun(_, _, _)
GreedyRun(q, i, n) ==
    IF n < 16 /\ i <= Len(q) /\ InClass(q[i])
    THEN GreedyRun(q, i + 1, n + 1)
    ELSE n

\* Faulty variant of re_fullmatch: re.match, which accepts a matching prefix.
re_fullmatch_Prefix(q) == GreedyRun(q, 1, 0) >= 3

\* re.fullmatch(r"[A-Za-z0-9_]{3,16}", q): some repetition count between 3 and
\* the greedy run ends exactly at the end of q.
re_fullmatch(q) == \E n \in 3..GreedyRun(q, 1, 0) : n = Len(q)

\* Faulty variant of is_valid_search_query: the quantifier {2,16}.
is_valid_search_query_Min2(q) == \E n \in 2..GreedyRun(q, 1, 0) : n = Len(q)

is_valid_search_query(q) == re_fullmatch(q)

QueryIdle == q_pc = "idle" /\ q_in = <<>> /\ q_valid = FALSE

QueryApply ==
    /\ q_pc = "start"
    /\ q_valid' = is_valid_search_query(q_in)
    /\ q_pc' = "done"
    /\ UNCHANGED <<q_in, pollvars, ddvars, tpvars, mainvars, pxvars>>

\* -------------------------------------------------------------- test_proxy
\* resp.read(20000) and len(body) > 500
ReadLimit == 20000
MinBodyLen == 500

\* A response body: size bytes, of which the first bad are not valid UTF-8 and
\* the rest are one-byte characters; text is the one notable piece of text in
\* it ("" for none), starting at byte offset at.
Body(s, b, t, a) == [size |-> s, bad |-> b, text |-> t, at |-> a]
NoBody == Body(0, 0, "", 0)

Markers == {"imperva", "incapsula", "<iframe"}
Texts == {"imperva", "IMPERVA", "Incapsula", "<iframe", "<IFrame", "<frame", "imperv"}

Bodies ==
    {Body(s, b, "", 0) : s \in {0, 400, 500, 501, 510, 20000, 20009, 30000}, b \in {0, 1, 10}}
    \cup
    {bd \in {Body(s, b, t, a) : s \in {400, 501, 510, 20000, 20009, 30000},
                               b \in {0, 10}, t \in Texts,
                               a \in {0, 10, 493, 19991, 19993, 19995, 20000}} :
        bd.at >= bd.bad /\ bd.at + Len(bd.text) <= bd.size}

\* What the network does on the probe: opener.open raises (timeout, refused,
\* TLS, proxy authentication, malformed proxy), resp.read raises, or a
\* response with a status and a body arrives.
ProbeCodes == {200, 204, 403, 503}
Probe(k, c, bd) == [kind |-> k, code |-> c, body |-> bd]
AllProbes ==
    {Probe("open_error", 0, NoBody), Probe("read_error", 200, NoBody)}
    \cup {Probe("response", c, bd) : c \in ProbeCodes, bd \in Bodies}

\* The probes of a run of the pipeline: one of each outcome class.
PipelineProbes ==
    {Probe("open_error", 0, NoBody), Probe("response", 403, NoBody),
     Probe("response", 200, Body(501, 0, "", 0)),
     Probe("response", 200, Body(501, 0, "<IFrame", 10))}

\* resp.read(n): the first n bytes; a text cut by the limit is no longer there.
read(bd, n) ==
    Body(Min(bd.size, n), Min(bd.bad, n),
         IF bd.at + Len(bd.text) <= n THEN bd.text ELSE "", bd.at)

\* bytes.decode("utf-8", errors="ignore"): the invalid bytes are dropped.
decode(bd) == [len |-> bd.size - bd.bad, text |-> bd.text]

\* str.lower on the texts of the model.
lower(t) ==
    CASE t = "IMPERVA" -> "imperva"
      [] t = "Incapsula" -> "incapsula"
      [] t = "<IFrame" -> "<iframe"
      [] OTHER -> t

\* Faulty variants of test_proxy: the markers searched without lower-casing,
\* and the length test len(body) >= 500.
test_proxy_NoLower(probe) ==
    IF probe.kind # "response" \/ RaisesHTTPError(probe.code)
    THEN FALSE
    ELSE LET body == decode(read(probe.body, ReadLimit)) IN
         IF probe.code # 200 THEN FALSE
         ELSE IF body.text \in Markers THEN FALSE
         ELSE body.len > MinBodyLen

test_proxy(probe) ==
    IF probe.kind # "response" \/ RaisesHTTPError(probe.code)
    THEN FALSE                                               \* except Exception
    ELSE LET body == decode(read(probe.body, ReadLimit)) IN
         IF probe.code # 200 THEN FALSE
         ELSE IF lower(body.text) \in Markers THEN FALSE
         ELSE body.len > MinBodyLen

ProbeIdle == tp_pc = "idle" /\ tp_probe = Probe("open_error", 0, NoBody) /\ tp_ok = FALSE

ProbeApply ==
    /\ tp_pc = "start"
    /\ tp_ok' = test_proxy(tp_probe)
    /\ tp_pc' = "done"
    /\ UNCHANGED <<tp_probe, pollvars, ddvars, qvars, mainvars, pxvars>>

\* ------------------------------------------------- main of proxy_filter.py
\* The lines the proxy source may serve.
RawLines == {"", "h1:80", " h2:80 "}

\* str.strip on the lines of the model.
strip(l) == IF l = " h2:80 " THEN "h2:80" ELSE l

Source(ok, ls) == [ok |-> ok, lines |-> ls]
Sources == {Source(FALSE, <<>>)} \cup {Source(TRUE, ls) : ls \in SeqsUpTo(RawLines, MaxLines)}

\* [line.strip() for line in raw.splitlines() if line.strip()]
fetch_proxy_list(ls) ==
    LET kept == SelectSeq(ls, LAMBDA l : strip(l) # "") IN
    [i \in 1..Len(kept) |-> strip(kept[i])]

\* Faulty variant of keep_if_ok: a proxy already among the survivors is not
\* added again.
keep_if_ok_Once(w, ok, proxy) ==
    IF ok /\ proxy \notin Range(w) THEN Append(w, proxy) ELSE w

\* if ok: working.append(proxy)
keep_if_ok(w, ok, proxy) == IF ok THEN Append(w, proxy) ELSE w

\* Faulty variant of LimitReached: the limit bounds the survivors, not the probes.
LimitReached_Survivors(t, w, lim) == Len(w) >= lim

\* if tested >= args.limit: break
LimitReached(t, w, lim) == t >= lim

ProxyIdle ==
    /\ px_pc = "idle"
    /\ px_source = Source(FALSE, <<>>)
    /\ limit = 0
    /\ proxies = <<>>
    /\ px_i = 1
    /\ tested = 0
    /\ working = <<>>
    /\ probed = <<>>
    /\ verdicts = <<>>
    /\ px_sleeps = 0
    /\ exit_code = -1
    /\ out_file = <<>>

\* proxies = fetch_proxy_list(args.source_url); an empty list exits with 1; an
\* error of urlopen is not caught and ends the run (Python's status 1).
px_fetch ==
    /\ px_pc = "start"
    /\ IF ~px_source.ok
       THEN /\ px_pc' = "crashed"
            /\ exit_code' = 1
            /\ UNCHANGED proxies
       ELSE /\ proxies' = fetch_proxy_list(px_source.lines)
            /\ IF proxies' = <<>>
               THEN px_pc' = "exited" /\ exit_code' = 1
               ELSE px_pc' = "loop" /\ UNCHANGED exit_code
    /\ tested' = 0
    /\ working' = <<>>
    /\ UNCHANGED <<px_source, limit, px_i, probed, verdicts, px_sleeps, out_file>>
    /\ UNCHANGED <<pollvars, ddvars, qvars, tpvars, mainvars>>

\* One iteration of the probe loop that does not break.
px_iter ==
    /\ px_pc = "loop"
    /\ px_i <= Len(proxies)
    /\ ~LimitReached(tested, working, limit)
    /\ tested' = tested + 1
    /\ \E probe \in PipelineProbes :
         LET ok == test_proxy(probe) IN
         /\ verdicts' = Append(verdicts, ok)
         /\ working' = keep_if_ok(working, ok, proxies[px_i])
    /\ probed' = Append(probed, px_i)
    /\ px_sleeps' = px_sleeps + 1
    /\ px_i' = px_i + 1
    /\ UNCHANGED <<px_pc, px_source, limit, proxies, exit_code, out_file>>
    /\ UNCHANGED <<pollvars, ddvars, qvars, tpvars, mainvars>>

\* The loop ends (list exhausted or break): persist the survivors and end
\* with status 0, or exit with 2.
px_finish ==
    /\ px_pc = "loop"
    /\ (px_i > Len(proxies) \/ LimitReached(tested, working, limit))
    /\ IF working # <<>>
       THEN out_file' = working /\ exit_code' = 0
       ELSE exit_code' = 2 /\ UNCHANGED out_file
    /\ px_pc' = "exited"
    /\ UNCHANGED <<px_source, limit, proxies, px_i, tested, working, probed,
                   verdicts, px_sleeps>>
    /\ UNCHANGED <<pollvars, ddvars, qvars, tpvars, mainvars>>

\* ------------------------------------------------ main of prewarm_guilds.py
GUILDS ==
    <<"Mythic", "RAW", "Control", "Insecure", "Ace", "Demise", "Fall", "Yeah",
      "Orca", "Armbrows", "Combat", "Cold", "Ruin", "Act", "Dominate", "BLNK",
      "RAT", "Deported", "Necrotic", "Bliss", "Ecchi_Squad", "Carrots", "BugCat",
      "Skill_Issue", "ManshaSlayers">>

\* The guilds of a run of the model.
Roster == SubSeq(GUILDS, 1, NumGuilds)

\* --delay, default 2.0
DefaultDelay == 2

\* build_url(base_url, path, params), reduced to the path and the identifier
\* among the parameters.
build_url(path, name, query) == [endpoint |-> path, name |-> name, query |-> query]

\* guild_json.get("members") or []
members_of(guild_json) ==
    IF guild_json.has_members THEN guild_json.members ELSE <<>>

\* Faulty variant of collect_profile_targets: the field of every member is
\* taken, whether the member has it or not.
collect_profile_targets_NoFilter(guild_json) ==
    [i \in 1..Len(members_of(guild_json)) |-> members_of(guild_json)[i].pt]

collect_profile_targets(guild_json) ==
    LET kept == SelectSeq(members_of(guild_json), LAMBDA m : m.has_pt /\ m.pt # "") IN
    [i \in 1..Len(kept) |-> kept[i].pt]

collect_family_names(guild_json) ==
    LET kept == SelectSeq(members_of(guild_json), LAMBDA m : m.has_fn /\ m.fn # <<>>) IN
    [i \in 1..Len(kept) |-> kept[i].fn]

NoFile == [written |-> FALSE, lines |-> <<>>]
File(ls) == [written |-> TRUE, lines |-> ls]

MainIdle ==
    /\ mainpc = "idle"
    /\ warm_search = FALSE
    /\ gi = 1
    /\ all_profile_targets = <<>>
    /\ all_family_names = <<>>
    /\ unique_profile_targets = <<>>
    /\ failed_profile_targets = <<>>
    /\ pidx = 1
    /\ unique_family_names = <<>>
    /\ failed_searches = <<>>
    /\ sidx = 1
    /\ files = [failed_profiles |-> NoFile, failed_searches |-> NoFile]
    /\ polls = <<>>
    /\ throttles = <<>>
    /\ returns = <<>>

\* Faulty variant of GuildLoopDone: the guild loop left after its first
\* iteration.
GuildLoopDone_AfterFirst(g) == g > 1

\* for guild in GUILDS has run out of guilds; g is the position in the roster.
GuildLoopDone(g) == g > Len(Roster)

\* for guild in GUILDS: guild_json = wait_for_200(guild_url, ...)
main_guild_call ==
    /\ mainpc = "guilds"
    /\ pollpc = "idle"
    /\ ~GuildLoopDone(gi)
    /\ PollEntry(build_url("/v1/guild", Roster[gi], <<>>))
    /\ polls' = Append(polls, build_url("/v1/guild", Roster[gi], <<>>))
    /\ mainpc' = "guild_wait"
    /\ UNCHANGED <<warm_search, gi, all_profile_targets, all_family_names,
                   unique_profile_targets, failed_profile_targets, pidx,
                   unique_family_names, failed_searches, sidx, files, throttles,
                   returns>>
    /\ UNCHANGED <<ddvars, qvars, tpvars, pxvars>>

\* Faulty variant of GuildObtained: every value but None taken as a record.
GuildObtained_NotNone(guild_json) == guild_json.t # "none"

\* The negation of "if not guild_json": the value is truthy.
GuildObtained(guild_json) == guild_json.truthy

\* if not guild_json: continue; else collect, extend, time.sleep(args.throttle)
main_guild_return ==
    /\ mainpc = "guild_wait"
    /\ pollpc = "returned"
    /\ IF ~GuildObtained(result)
       THEN UNCHANGED <<all_profile_targets, all_family_names, throttles>>
       ELSE /\ all_profile_targets' =
                  all_profile_targets \o collect_profile_targets(result)
            /\ all_family_names' = all_family_names \o collect_family_names(result)
            /\ throttles' = Append(throttles, url)
    /\ gi' = gi + 1
    /\ mainpc' = "guilds"
    /\ returns' = Append(returns, result)
    /\ PollExit
    /\ UNCHANGED <<warm_search, unique_profile_targets, failed_profile_targets, pidx,
                   unique_family_names, failed_searches, sidx, files, polls>>
    /\ UNCHANGED <<ddvars, qvars, tpvars, pxvars>>

\* unique_profile_targets = list(dict.fromkeys(all_profile_targets))
main_dedup_profiles ==
    /\ mainpc = "guilds"
    /\ GuildLoopDone(gi)
    /\ unique_profile_targets' = unique(all_profile_targets)
    /\ failed_profile_targets' = <<>>
    /\ pidx' = 1
    /\ mainpc' = "profiles"
    /\ UNCHANGED <<warm_search, gi, all_profile_targets, all_family_names,
                   unique_family_names, failed_searches, sidx, files, polls, throttles,
                   returns>>
    /\ UNCHANGED <<pollvars, ddvars, qvars, tpvars, pxvars>>

\* for idx, profile_target in enumerate(unique_profile_targets, 1): wait_for_200
main_profile_call ==
    /\ mainpc = "profiles"
    /\ pollpc = "idle"
    /\ pidx <= Len(unique_profile_targets)
    /\ PollEntry(build_url("/v1/adventurer", unique_profile_targets[pidx], <<>>))
    /\ polls' = Append(polls, build_url("/v1/adventurer", unique_profile_targets[pidx], <<>>))
    /\ mainpc' = "profile_wait"
    /\ UNCHANGED <<warm_search, gi, all_profile_targets, all_family_names,
                   unique_profile_targets, failed_profile_targets, pidx,
                   unique_family_names, failed_searches, sidx, files, throttles,
                   returns>>
    /\ UNCHANGED <<ddvars, qvars, tpvars, pxvars>>

\* Faulty variant of main_profile_return: an absent result ends the profile
\* loop.
main_profile_return_StopOnAbsent ==
    /\ mainpc = "profile_wait"
    /\ pollpc = "returned"
    /\ failed_profile_targets' =
          IF result.t = "none"
          THEN Append(failed_profile_targets, unique_profile_targets[pidx])
          ELSE failed_profile_targets
    /\ throttles' = Append(throttles, url)
    /\ pidx' = IF result.t = "none" THEN Len(unique_profile_targets) + 1 ELSE pidx + 1
    /\ mainpc' = "profiles"
    /\ returns' = Append(returns, result)
    /\ PollExit
    /\ UNCHANGED <<warm_search, gi, all_profile_targets, all_family_names,
                   unique_profile_targets, unique_family_names, failed_searches,
                   sidx, files, polls>>
    /\ UNCHANGED <<ddvars, qvars, tpvars, pxvars>>

\* if result is None: failed_profile_targets.append(...); time.sleep(args.throttle)
main_profile_return ==
    /\ mainpc = "profile_wait"
    /\ pollpc = "returned"
    /\ failed_profile_targets' =
          IF result.t = "none"
          THEN Append(failed_profile_targets, unique_profile_targets[pidx])
          ELSE failed_profile_targets
    /\ throttles' = Append(throttles, url)
    /\ pidx' = pidx + 1
    /\ mainpc' = "profiles"
    /\ returns' = Append(returns, result)
    /\ PollExit
    /\ UNCHANGED <<warm_search, gi, all_profile_targets, all_family_names,
                   unique_profile_targets, unique_family_names, failed_searches,
                   sidx, files, polls>>
    /\ UNCHANGED <<ddvars, qvars, tpvars, pxvars>>

\* After the profile loop: write failed_profiles.txt when there are failures;
\* with --warm-search deduplicate the family names and start the search loop.
main_profiles_end ==
    /\ mainpc = "profiles"
    /\ pidx > Len(unique_profile_targets)
    /\ files' = IF failed_profile_targets # <<>>
                THEN [files EXCEPT !.failed_profiles = File(failed_profile_targets)]
                ELSE files
    /\ IF warm_search
       THEN /\ unique_family_names' = unique(all_family_names)
            /\ failed_searches' = <<>>
            /\ sidx' = 1
            /\ mainpc' = "search"
       ELSE /\ mainpc' = "done"
            /\ UNCHANGED <<unique_family_names, failed_searches, sidx>>
    /\ UNCHANGED <<warm_search, gi, all_profile_targets, all_family_names,
                   unique_profile_targets, failed_profile_targets, pidx, polls,
                   throttles, returns>>
    /\ UNCHANGED <<pollvars, ddvars, qvars, tpvars, pxvars>>

\* if not is_valid_search_query(family_name): continue
main_search_skip ==
    /\ mainpc = "search"
    /\ sidx <= Len(unique_family_names)
    /\ ~is_valid_search_query(unique_family_names[sidx])
    /\ sidx' = sidx + 1
    /\ UNCHANGED <<mainpc, warm_search, gi, all_profile_targets, all_family_names,
                   unique_profile_targets, failed_profile_targets, pidx,
                   unique_family_names, failed_searches, files, polls, throttles,
                   returns>>
    /\ UNCHANGED <<pollvars, ddvars, qvars, tpvars, pxvars>>

main_search_call ==
    /\ mainpc = "search"
    /\ pollpc = "idle"
    /\ sidx <= Len(unique_family_names)
    /\ is_valid_search_query(unique_family_names[sidx])
    /\ PollEntry(build_url("/v1/adventurer/search", "", unique_family_names[sidx]))
    /\ polls' = Append(polls, build_url("/v1/adventurer/search", "", unique_family_names[sidx]))
    /\ mainpc' = "search_wait"
    /\ UNCHANGED <<warm_search, gi, all_profile_targets, all_family_names,
                   unique_profile_targets, failed_profile_targets, pidx,
                   unique_family_names, failed_searches, sidx, files, throttles,
                   returns>>
    /\ UNCHANGED <<ddvars, qvars, tpvars, pxvars>>

\* Faulty variant of main_search_return: no throttle sleep after a poll that
\* returned None.
main_search_return_NoThrottleOnAbsent ==
    /\ mainpc = "search_wait"
    /\ pollpc = "returned"
    /\ failed_searches' =
          IF result.t = "none"
          THEN Append(failed_searches, unique_family_names[sidx])
          ELSE failed_searches
    /\ throttles' = IF result.t = "none" THEN throttles ELSE Append(throttles, url)
    /\ sidx' = sidx + 1
    /\ mainpc' = "search"
    /\ returns' = Append(returns, result)
    /\ PollExit
    /\ UNCHANGED <<warm_search, gi, all_profile_targets, all_family_names,
                   unique_profile_targets, failed_profile_targets, pidx,
                   unique_family_names, files, polls>>
    /\ UNCHANGED <<ddvars, qvars, tpvars, pxvars>>

\* if result is None: failed_searches.append(family_name); time.sleep(args.throttle)
main_search_return ==
    /\ mainpc = "search_wait"
    /\ pollpc = "returned"
    /\ failed_searches' =
          IF result.t = "none"
          THEN Append(failed_searches, unique_family_names[sidx])
          ELSE failed_searches
    /\ throttles' = Append(throttles, url)
    /\ sidx' = sidx + 1
    /\ mainpc' = "search"
    /\ returns' = Append(returns, result)
    /\ PollExit
    /\ UNCHANGED <<warm_search, gi, all_profile_targets, all_family_names,
                   unique_profile_targets, failed_profile_targets, pidx,
                   unique_family_names, files, polls>>
    /\ UNCHANGED <<ddvars, qvars, tpvars, pxvars>>

\* After the search loop: write failed_searches.txt when there are failures.
main_searches_end ==
    /\ mainpc = "search"
    /\ sidx > Len(unique_family_names)
    /\ files' = IF failed_searches # <<>>
                THEN [files EXCEPT !.failed_searches = File(failed_searches)]
                ELSE files
    /\ mainpc' = "done"
    /\ UNCHANGED <<warm_search, gi, all_profile_targets, all_family_names,
                   unique_profile_targets, failed_profile_targets, pidx,
                   unique_family_names, failed_searches, sidx, polls, throttles,
                   returns>>
    /\ UNCHANGED <<pollvars, ddvars, qvars, tpvars, pxvars>>

\* --------------------------------------------------------- specifications
PollIdle ==
    /\ pollpc = "idle"
    /\ url = NoUrl
    /\ max_attempts = 0
    /\ delay = 0
    /\ attempt = 1
    /\ last_status = 0
    /\ result = NoneV
    /\ hint = FALSE
    /\ hist = <<>>
    /\ sleeps = <<>>
    /\ lastResp = NoResponse
    /\ lastOutcome = FetchOutcome(0, NoneV, "")
    /\ got200 = FALSE
    /\ requests = {}
    /\ profile_gets = 0

\* The polling engine on its own: one call wait_for_200(TestUrl, ...).
InitPoll ==
    /\ DedupIdle /\ QueryIdle /\ ProbeIdle /\ MainIdle /\ ProxyIdle
    /\ pollpc = "running"
    /\ url = TestUrl
    /\ max_attempts \in 0..MaxAttempts
    /\ delay \in 0..MaxDelay
    /\ attempt = 1
    /\ last_status = 0
    /\ result = NoneV
    /\ hint = FALSE
    /\ hist = <<>>
    /\ sleeps = <<>>
    /\ lastResp = NoResponse
    /\ lastOutcome = FetchOutcome(0, NoneV, "")
    /\ got200 = FALSE
    /\ requests = {}
    /\ profile_gets = 0

NextPoll == wait_for_200_attempt \/ wait_for_200_fail

SpecPoll == InitPoll /\ [][NextPoll]_vars

\* WF: the single thread always completes the step it is in (every GET has a
\* timeout, every sleep is finite).
FairSpecPoll == SpecPoll /\ WF_vars(NextPoll)

\* The polling engine on its own, called with any max_attempts (argparse
\* takes every int, negative ones too).
InitPollAny ==
    /\ DedupIdle /\ QueryIdle /\ ProbeIdle /\ MainIdle /\ ProxyIdle
    /\ pollpc = "running"
    /\ url = TestUrl
    /\ max_attempts \in (-1)..MaxAttempts
    /\ delay \in 0..MaxDelay
    /\ attempt = 1
    /\ last_status = 0
    /\ result = NoneV
    /\ hint = FALSE
    /\ hist = <<>>
    /\ sleeps = <<>>
    /\ lastResp = NoResponse
    /\ lastOutcome = FetchOutcome(0, NoneV, "")
    /\ got200 = FALSE
    /\ requests = {}
    /\ profile_gets = 0

SpecPollAny == InitPollAny /\ [][NextPoll]_vars

\* list(dict.fromkeys(xs)) on its own.
InitDedup ==
    /\ PollIdle /\ QueryIdle /\ ProbeIdle /\ MainIdle /\ ProxyIdle
    /\ dd_pc = "start"
    /\ dd_in \in SeqsUpTo(Ids, MaxLen)
    /\ dd_out = <<>>

NextDedup == DedupApply

SpecDedup == InitDedup /\ [][NextDedup]_vars

\* is_valid_search_query on its own.
InitQuery ==
    /\ PollIdle /\ DedupIdle /\ ProbeIdle /\ MainIdle /\ ProxyIdle
    /\ q_pc = "start"
    /\ q_in \in QueryInputs
    /\ q_valid = FALSE

NextQuery == QueryApply

SpecQuery == InitQuery /\ [][NextQuery]_vars

\* test_proxy on its own.
InitProbe ==
    /\ PollIdle /\ DedupIdle /\ QueryIdle /\ MainIdle /\ ProxyIdle
    /\ tp_pc = "start"
    /\ tp_probe \in AllProbes
    /\ tp_ok = FALSE

NextProbe == ProbeApply

SpecProbe == InitProbe /\ [][NextProbe]_vars

\* A run of proxy_filter.py.
InitProxy ==
    /\ PollIdle /\ DedupIdle /\ QueryIdle /\ ProbeIdle /\ MainIdle
    /\ px_pc = "start"
    /\ px_source \in Sources
    /\ limit \in (-1)..MaxLimit
    /\ proxies = <<>>
    /\ px_i = 1
    /\ tested = 0
    /\ working = <<>>
    /\ probed = <<>>
    /\ verdicts = <<>>
    /\ px_sleeps = 0
    /\ exit_code = -1
    /\ out_file = <<>>

NextProxy == px_fetch \/ px_iter \/ px_finish

SpecProxy == InitProxy /\ [][NextProxy]_vars

\* A run of prewarm_guilds.py.
InitWarm ==
    /\ DedupIdle /\ QueryIdle /\ ProbeIdle /\ ProxyIdle
    /\ pollpc = "idle"
    /\ url = NoUrl
    /\ max_attempts \in 1..WarmAttempts
    /\ delay = DefaultDelay
    /\ attempt = 1
    /\ last_status = 0
    /\ result = NoneV
    /\ hint = FALSE
    /\ hist = <<>>
    /\ sleeps = <<>>
    /\ lastResp = NoResponse
    /\ lastOutcome = FetchOutcome(0, NoneV, "")
    /\ got200 = FALSE
    /\ requests = {}
    /\ profile_gets = 0
    /\ mainpc = "guilds"
    /\ warm_search \in BOOLEAN
    /\ gi = 1
    /\ all_profile_targets = <<>>
    /\ all_family_names = <<>>
    /\ unique_profile_targets = <<>>
    /\ failed_profile_targets = <<>>
    /\ pidx = 1
    /\ unique_family_names = <<>>
    /\ failed_searches = <<>>
    /\ sidx = 1
    /\ files = [failed_profiles |-> NoFile, failed_searches |-> NoFile]
    /\ polls = <<>>
    /\ throttles = <<>>
    /\ returns = <<>>

NextWarm ==
    \/ main_guild_call \/ main_guild_return \/ main_dedup_profiles
    \/ main_profile_call \/ main_profile_return \/ main_profiles_end
    \/ main_search_skip \/ main_search_call \/ main_search_return
    \/ main_searches_end
    \/ wait_for_200_attempt \/ wait_for_200_fail

SpecWarm == InitWarm /\ [][NextWarm]_vars

\* WF: main is one thread; it always completes the step it is in (every GET
\* has a timeout, every sleep is finite).
FairSpecWarm == SpecWarm /\ WF_vars(NextWarm)

\* ------------------------------------------------- properties of the poll
RECURSIVE SumSeq(_)
SumSeq(s) == IF s = <<>> THEN 0 ELSE Head(s) + SumSeq(Tail(s))

Returned == pollpc = "returned"

\* C1: the poll consumes the outcomes up to the first one with status 200 and
\* stops there: if the first 200 is the k-th outcome, exactly k attempts were
\* made, the call has returned that outcome's body, and exactly k-1 sleeps were
\* performed (none after the 200); when the k-1 earlier outcomes are all 202,
\* each of those sleeps is the base delay.  A call that has returned without a
\* 200 has consumed max_attempts outcomes, so no 200 at a position up to
\* max_attempts is ever left unread.
C1_StopsAtFirst200 ==
    /\ \A k \in 1..Len(hist) :
         (hist[k] = 200 /\ \A j \in 1..(k - 1) : hist[j] # 200) =>
            /\ k <= max_attempts
            /\ Len(hist) = k
            /\ Returned
            /\ result = lastOutcome.data
            /\ lastOutcome.status = 200
            /\ Len(sleeps) = k - 1
            /\ (\A j \in 1..(k - 1) : hist[j] = 202) =>
                  (\A j \in 1..(k - 1) : sleeps[j] = delay)
    /\ (Returned /\ \A j \in 1..Len(hist) : hist[j] # 200) =>
          Len(hist) = max_attempts

C1_Witness ==
    /\ Returned
    /\ hist = <<202, 202, 200>>
    /\ delay = 2
    /\ sleeps = <<2, 2>>
    /\ result = SomeDict

\* C2 (as claimed): once the poll has returned, its result is present if some
\* attempt received an HTTP 200 response, and it is absent only after
\* max_attempts attempts none of which received a 200.
C2_AbsentOnlyAfterExhaustion ==
    Returned =>
        /\ got200 => result # NoneV
        /\ result = NoneV => (Len(hist) = max_attempts /\ ~got200)

\* C3 (as claimed): for every response actually received, the status
\* http_get_json returns is the response's status code; status 0 is returned
\* only when no response was received.
C3_StatusIsResponseCode ==
    Len(hist) >= 1 =>
        /\ lastResp.kind = "http" => last_status = lastResp.code
        /\ last_status = 0 => lastResp.kind = "none"

\* C4: when max_attempts >= 1 and every attempt so far returned status 429,
\* each attempt was followed by a sleep of at least 5 seconds, and the call
\* returns only after exactly max_attempts attempts, with None.
C4_AllRateLimited ==
    (max_attempts >= 1 /\ \A i \in 1..Len(hist) : hist[i] = 429) =>
        /\ Len(sleeps) = Len(hist)
        /\ \A i \in 1..Len(sleeps) : sleeps[i] >= 5
        /\ Returned => (result = NoneV /\ Len(hist) = max_attempts)

C4_Witness ==
    /\ Returned
    /\ max_attempts = 3
    /\ hist = <<429, 429, 429>>
    /\ delay = 3
    /\ sleeps = <<6, 6, 6>>
    /\ result = NoneV

\* C5: for every sequence of outcomes the poll returns, and at every moment it
\* has made at most max_attempts attempts and slept at most
\* max_attempts x max(10, 5 x delay) seconds in total.
C5_BoundedWait ==
    /\ [](/\ Len(hist) <= max_attempts
          /\ SumSeq(sleeps) <= max_attempts * Max(10, 5 * delay))
    /\ <>Returned

C5_Witness ==
    /\ Returned
    /\ max_attempts = 3
    /\ delay = 3
    /\ hist = <<500, 0, 503>>
    /\ SumSeq(sleeps) = 45

\* ------------------------------------------- properties of the pure functions
\* The first position of x in s (0 when absent).
FirstIndex(s, x) ==
    IF x \in Range(s) THEN CHOOSE i \in 1..Len(s) : s[i] = x /\ \A j \in 1..(i - 1) : s[j] # x
    ELSE 0

RECURSIVE IsSubSeq(_, _)
IsSubSeq(a, b) ==
    IF a = <<>> THEN TRUE
    ELSE IF b = <<>> THEN FALSE
    ELSE IF Head(a) = Head(b) THEN IsSubSeq(Tail(a), Tail(b))
    ELSE IsSubSeq(a, Tail(b))

\* C6: the deduplicated list holds each distinct element of the input exactly
\* once, in the order of first appearance in the input, and is a sub-sequence
\* of the input (the empty input gives the empty list).
C6_Dedup ==
    dd_pc = "done" =>
        /\ Range(dd_out) = Range(dd_in)
        /\ \A i, j \in 1..Len(dd_out) : dd_out[i] = dd_out[j] => i = j
        /\ \A i, j \in 1..Len(dd_out) :
             i < j => FirstIndex(dd_in, dd_out[i]) < FirstIndex(dd_in, dd_out[j])
        /\ IsSubSeq(dd_out, dd_in)

C6_Witness ==
    /\ dd_pc = "done"
    /\ dd_in = <<"p2", "p1", "p2", "p3">>
    /\ dd_out = <<"p2", "p1", "p3">>

\* The characters A-Z, a-z, 0-9 and _ as a set of code points.
ClassChars == (65..90) \cup (97..122) \cup (48..57) \cup {95}

\* C7: is_valid_search_query(q) is true iff q as a whole has between 3 and 16
\* characters, all of them in [A-Za-z0-9_].
C7_QueryValid ==
    q_pc = "done" =>
        (q_valid <=> (/\ Len(q_in) >= 3
                      /\ Len(q_in) <= 16
                      /\ \A i \in 1..Len(q_in) : q_in[i] \in ClassChars))

C7_Witness ==
    /\ q_pc = "done"
    /\ Len(q_in) = 16
    /\ q_in[16] = 95
    /\ q_valid

\* ------------------------------------------- properties of the search warming
\* A query of 3 to 16 characters of [A-Za-z0-9_].
ValidQuery(q) ==
    /\ Len(q) >= 3
    /\ Len(q) <= 16
    /\ \A i \in 1..Len(q) : q[i] \in ClassChars

SearchUrls ==
    {u \in requests \cup Range(polls) \cup Range(throttles) :
        u.endpoint = "/v1/adventurer/search"}

\* C8: in search warming no poll is started, no GET is issued and no throttle
\* sleep is performed for a family name that is not a valid query, and the
\* search failure list (and the file written from it) holds valid names only.
C8_InvalidNamesSkipped ==
    /\ \A u \in SearchUrls : ValidQuery(u.query)
    /\ \A i \in 1..Len(failed_searches) : ValidQuery(failed_searches[i])
    /\ \A i \in 1..Len(files.failed_searches.lines) :
         ValidQuery(files.failed_searches.lines[i])

C8_Witness ==
    /\ mainpc = "done"
    /\ warm_search
    /\ unique_family_names = <<FnAb, FnAbc, FnSpace, FnJ1>>
    /\ failed_searches = <<FnAbc>>
    /\ files.failed_searches = File(<<FnAbc>>)
    /\ Cardinality(SearchUrls) = 2

\* ------------------------------------------------ properties of the proxy tool
\* The texts whose case-folded form is a block-page marker.
FoldsToMarker == {"imperva", "IMPERVA", "Incapsula", "<iframe", "<IFrame"}

\* C9: test_proxy returns a boolean for every outcome of the probe, and the
\* boolean is true iff a response arrived and was read without an exception,
\* its status is 200, no marker lies (in any letter case) within its first
\* 20000 bytes, and those bytes decode to more than 500 characters.
C9_ProxyVerdict ==
    tp_pc = "done" =>
        /\ tp_ok \in BOOLEAN
        /\ tp_ok <=>
             /\ tp_probe.kind = "response"
             /\ tp_probe.code = 200
             /\ ~(/\ tp_probe.body.text \in FoldsToMarker
                  /\ tp_probe.body.at + Len(tp_probe.body.text) <= 20000)
             /\ Min(tp_probe.body.size, 20000) - Min(tp_probe.body.bad, 20000) > 500

C9_Witness ==
    /\ tp_pc = "done"
    /\ tp_ok
    /\ tp_probe.code = 200
    /\ tp_probe.body = Body(501, 0, "", 0)

\* C10: the pipeline probes the candidates in source order, one probe per
\* list position, never more than max(limit, 0) of them, and a run that went
\* through the loop has issued exactly min(max(limit, 0), n) probes, whatever
\* the verdicts.
C10_ProbeCount ==
    /\ \A i \in 1..Len(probed) : probed[i] = i
    /\ Len(verdicts) = Len(probed)
    /\ Len(probed) <= Max(limit, 0)
    /\ Len(probed) <= Len(proxies)
    /\ px_pc = "exited" => Len(probed) = Min(Max(limit, 0), Len(proxies))

C10_Witness ==
    /\ px_pc = "exited"
    /\ limit = 3
    /\ Len(proxies) = 5
    /\ probed = <<1, 2, 3>>
    /\ verdicts = <<FALSE, TRUE, FALSE>>

\* Some candidate probed so far had verdict true.
SomeVerdictTrue == \E i \in 1..Len(verdicts) : verdicts[i]

\* C11 (as claimed): no run ends by a propagated exception, and a run that has
\* ended has status 0 iff some probed candidate had verdict true (the
\* survivors are then persisted), 2 iff the candidate list is non-empty and no
\* probed candidate had verdict true (nothing persisted), 1 iff the candidate
\* list is empty (no probe issued).
C11_ExitStatus ==
    /\ px_pc # "crashed"
    /\ px_pc = "exited" =>
         /\ exit_code \in {0, 1, 2}
         /\ exit_code = 0 <=> SomeVerdictTrue
         /\ exit_code = 0 => (out_file = working /\ working # <<>>)
         /\ exit_code = 2 <=> (proxies # <<>> /\ ~SomeVerdictTrue)
         /\ exit_code # 0 => out_file = <<>>
         /\ exit_code = 1 <=> proxies = <<>>
         /\ exit_code = 1 => probed = <<>>

\* The candidates probed so far whose verdict was true, in the order probed.
ProbedSurvivors ==
    LET hits == SelectSeq([k \in 1..Len(probed) |-> k], LAMBDA k : verdicts[k]) IN
    [j \in 1..Len(hits) |-> proxies[probed[hits[j]]]]

\* C14: at every point of the run the survivor list is the sequence of the
\* candidates probed so far whose verdict was true, in source order (a string
\* probed twice with verdict true is there twice); no candidate at a position
\* beyond the limit has been probed, and the file written holds the survivors.
C14_Survivors ==
    /\ working = ProbedSurvivors
    /\ \A i \in 1..Len(probed) : probed[i] <= Max(limit, 0)
    /\ \A i, j \in 1..Len(probed) : i < j => probed[i] < probed[j]
    /\ out_file # <<>> => out_file = working

C14_Witness ==
    /\ px_pc = "exited"
    /\ limit = 3
    /\ proxies = <<"h1:80", "h2:80", "h1:80", "h2:80">>
    /\ verdicts = <<TRUE, FALSE, TRUE>>
    /\ working = <<"h1:80", "h1:80">>
    /\ out_file = <<"h1:80", "h1:80">>

\* ------------------------------------------ properties of the warming pipeline
NoDuplicates(s) == \A i, j \in 1..Len(s) : s[i] = s[j] => i = j

IsPrefix(a, b) == Len(a) <= Len(b) /\ SubSeq(b, 1, Len(a)) = a

\* C12: in both warming pipelines the failure list holds no identifier twice
\* and is a sub-sequence of its deduplicated identifier list, which holds no
\* two equal entries; and from the moment a pipeline has built its identifier
\* list every step leaves its failure list as it is or appends to it.
C12_FailureLists ==
    /\ [](/\ NoDuplicates(unique_profile_targets)
          /\ NoDuplicates(unique_family_names)
          /\ NoDuplicates(failed_profile_targets)
          /\ NoDuplicates(failed_searches)
          /\ IsSubSeq(failed_profile_targets, unique_profile_targets)
          /\ IsSubSeq(failed_searches, unique_family_names))
    /\ [][/\ IsPrefix(failed_profile_targets, failed_profile_targets')
          /\ IsPrefix(failed_searches, failed_searches')]_vars

C12_Witness ==
    /\ mainpc = "done"
    /\ all_profile_targets = <<"p1", "p1", "p2">>
    /\ unique_profile_targets = <<"p1", "p2">>
    /\ failed_profile_targets = <<"p1", "p2">>
    /\ all_family_names = <<FnAbc, FnAb, FnAbc, FnSpace, FnJ1>>
    /\ failed_searches = <<FnAbc, FnJ1>>

\* The polls of one endpoint, in the order main started them.
PollsOf(ep) == SelectSeq(polls, LAMBDA u : u.endpoint = ep)

ProfilePollNames ==
    [i \in 1..Len(PollsOf("/v1/adventurer")) |-> PollsOf("/v1/adventurer")[i].name]

\* The guild records main obtained: the truthy values its guild polls returned.
ObtainedGuilds ==
    {returns[i] : i \in {k \in 1..Len(returns) :
                            polls[k].endpoint = "/v1/guild" /\ returns[k].truthy}}

\* The non-empty profileTarget fields of the members of a guild record.
TargetsOf(g) ==
    IF g.has_members
    THEN {g.members[k].pt : k \in {i \in 1..Len(g.members) :
                                      g.members[i].has_pt /\ g.members[i].pt # ""}}
    ELSE {}

ObtainedTargets == UNION {TargetsOf(g) : g \in ObtainedGuilds}

AfterProfileLoop == mainpc \in {"search", "search_wait", "done"}

\* C13: the profile polls are for the distinct non-empty profileTargets of the
\* members of the obtained guild records, one poll each and none for anything
\* else; once the profile loop is over every such target has had its poll.
\* Nothing else is requested from the profile endpoint or enters the
\* deduplicated profile list or the profile failure list.
C13_ProfilePolls ==
    /\ NoDuplicates(ProfilePollNames)
    /\ Range(ProfilePollNames) \subseteq ObtainedTargets
    /\ AfterProfileLoop => Range(ProfilePollNames) = ObtainedTargets
    /\ \A u \in requests : u.endpoint = "/v1/adventurer" => u.name \in ObtainedTargets
    /\ Range(unique_profile_targets) \subseteq ObtainedTargets
    /\ Range(failed_profile_targets) \subseteq ObtainedTargets
    /\ Range(files.failed_profiles.lines) \subseteq ObtainedTargets

\* The first guild gives the record of two members, one with only a
\* profileTarget and one with only a familyName; the second gives no record.
C13_Witness ==
    /\ mainpc = "done"
    /\ ObtainedGuilds = {GuildA}
    /\ ProfilePollNames = <<"p1">>
    /\ all_family_names = <<FnAbc>>
    /\ failed_profile_targets = <<>>

\* ------------------------------------------------ properties of the backoff
\* The sleep the status table gives for a status that is not 200.
SleepOfClass(status, baseDelay) ==
    CASE status = 202 -> baseDelay
      [] status = 429 -> IF 2 * baseDelay > 5 THEN 2 * baseDelay ELSE 5
      [] status \in {500, 503, 0} -> IF 5 * baseDelay > 10 THEN 5 * baseDelay ELSE 10
      [] OTHER -> baseDelay

\* C15: every attempt whose status is not 200 is followed by one sleep, whose
\* duration is the one the table gives for that attempt's status and the base
\* delay, whatever the attempt number and the earlier statuses; and after it
\* the poll is at its next attempt as long as attempts remain.
C15_SleepByStatus ==
    /\ \A i \in 1..Len(hist) : hist[i] # 200 =>
          /\ i <= Len(sleeps)
          /\ sleeps[i] = SleepOfClass(hist[i], delay)
    /\ Len(sleeps) = Cardinality({i \in 1..Len(hist) : hist[i] # 200})
    /\ (Len(hist) >= 1 /\ hist[Len(hist)] # 200 /\ Len(hist) < max_attempts) =>
          (pollpc = "running" /\ attempt = Len(hist) + 1)

C15_Witness ==
    /\ pollpc = "running"
    /\ max_attempts = 3
    /\ delay = 3
    /\ hist = <<404, 201>>
    /\ sleeps = <<3, 3>>
    /\ attempt = 3

GuildPhaseOver ==
    /\ gi > Len(Roster)
    /\ mainpc \notin {"guilds", "guild_wait"}
    /\ Len(PollsOf("/v1/guild")) = Len(Roster)
    /\ \A i \in 1..Len(Roster) : i <= Len(returns)

SameElementsOnce(u, all) == NoDuplicates(u) /\ Range(u) = Range(all)

\* C16: a poll or a GET of the profile or the search endpoint happens only
\* when every guild of the roster has had its poll and that poll has returned,
\* and the identifier list of that pipeline has been deduplicated; no guild
\* poll follows a warming poll.  The profile polls are never more than the
\* distinct profile targets, and are exactly that many once the profile loop
\* is over; the GETs issued to the profile endpoint are at most that number
\* times max_attempts.
C16_OrderingBeforeQuerying ==
    /\ \A u \in requests \cup Range(polls) :
         /\ u.endpoint # "/v1/guild" =>
               /\ GuildPhaseOver
               /\ SameElementsOnce(unique_profile_targets, all_profile_targets)
         /\ u.endpoint = "/v1/adventurer/search" =>
               /\ AfterProfileLoop
               /\ SameElementsOnce(unique_family_names, all_family_names)
    /\ \A i, j \in 1..Len(polls) :
         (i < j /\ polls[i].endpoint # "/v1/guild") => polls[j].endpoint # "/v1/guild"
    /\ Len(PollsOf("/v1/adventurer")) <= Cardinality(Range(all_profile_targets))
    /\ AfterProfileLoop =>
          Len(PollsOf("/v1/adventurer")) = Cardinality(Range(all_profile_targets))
    /\ profile_gets <= Cardinality(Range(all_profile_targets)) * max_attempts

C16_Witness ==
    /\ mainpc = "done"
    /\ max_attempts = 2
    /\ all_profile_targets = <<"p1", "p1", "p2">>
    /\ Len(PollsOf("/v1/adventurer")) = 2
    /\ profile_gets = 4

SearchPollQueries ==
    [i \in 1..Len(PollsOf("/v1/adventurer/search")) |->
        PollsOf("/v1/adventurer/search")[i].query]

\* The polls of one endpoint that returned None to main, in order.
ReturnedAbsent(ep) ==
    LET idx == SelectSeq([k \in 1..Len(returns) |-> k],
                         LAMBDA k : polls[k].endpoint = ep /\ returns[k] = NoneV)
    IN [j \in 1..Len(idx) |-> polls[idx[j]]]

\* C17: the profile polls are, at every moment, the first so many entries of
\* the deduplicated profile list in its order, and all of them once the loop
\* is over, whatever the earlier polls and the guild polls returned; likewise
\* the search polls for the entries of the deduplicated family names that
\* pass the query filter.  Each failure list, and the file written from it,
\* holds exactly the identifiers whose poll returned None, in poll order.
\* Every run reaches the end of main.
C17_ExhaustionNotFatal ==
    /\ [](/\ IsPrefix(ProfilePollNames, unique_profile_targets)
          /\ AfterProfileLoop => ProfilePollNames = unique_profile_targets
          /\ IsPrefix(SearchPollQueries, SelectSeq(unique_family_names, ValidQuery))
          /\ (mainpc = "done" /\ warm_search) =>
                SearchPollQueries = SelectSeq(unique_family_names, ValidQuery)
          /\ failed_profile_targets =
                [j \in 1..Len(ReturnedAbsent("/v1/adventurer")) |->
                    ReturnedAbsent("/v1/adventurer")[j].name]
          /\ failed_searches =
                [j \in 1..Len(ReturnedAbsent("/v1/adventurer/search")) |->
                    ReturnedAbsent("/v1/adventurer/search")[j].query]
          /\ mainpc = "done" =>
                /\ files.failed_profiles.lines = failed_profile_targets
                /\ files.failed_searches.lines = failed_searches)
    /\ <>(mainpc = "done")

\* The first guild poll and the first profile poll returned None; the later
\* guild, profile and search polls were made all the same.
C17_Witness ==
    /\ mainpc = "done"
    /\ warm_search
    /\ returns[1] = NoneV
    /\ returns[2] = GuildB
    /\ ProfilePollNames = <<"p1", "p2">>
    /\ failed_profile_targets = <<"p1">>
    /\ SearchPollQueries = <<FnAbc, FnJ1>>
    /\ failed_searches = <<FnAbc>>

IsWarming(u) == u.endpoint \in {"/v1/adventurer", "/v1/adventurer/search"}

WarmingPolls == SelectSeq(polls, IsWarming)

WarmingThrottles == SelectSeq(throttles, IsWarming)

\* C18: in profile and search warming the throttle sleeps are, in order, for
\* exactly the polls that have returned to main: while a poll is in flight
\* every earlier poll has had its one throttle sleep, and otherwise every
\* poll has, whether it returned a body or None.  A throttle sleep is a step
\* of main taken after the engine has returned, and adds nothing to the
\* engine's own sleeps; the engine sleeps only while it is running.
C18_ThrottleAfterEveryPoll ==
    /\ [](/\ mainpc \in {"profile_wait", "search_wait"} =>
                /\ WarmingPolls # <<>>
                /\ WarmingThrottles = SubSeq(WarmingPolls, 1, Len(WarmingPolls) - 1)
          /\ mainpc \notin {"profile_wait", "search_wait"} =>
                WarmingThrottles = WarmingPolls)
    /\ [][/\ throttles' # throttles =>
                /\ pollpc = "returned"
                /\ pollpc' = "idle"
                /\ throttles' = Append(throttles, url)
          /\ Len(sleeps') > Len(sleeps) =>
                /\ pollpc = "running"
                /\ throttles' = throttles]_vars

\* Two profile polls that returned a body after three GETs in all (one at
\* once, one after a retry) and two search polls, one of which returned None.
C18_Witness ==
    /\ mainpc = "done"
    /\ max_attempts = 2
    /\ ProfilePollNames = <<"p1", "p2">>
    /\ failed_profile_targets = <<>>
    /\ profile_gets = 3
    /\ failed_searches = <<FnAbc>>
    /\ Len(WarmingPolls) = 4
    /\ WarmingThrottles = WarmingPolls

\* ------------------------------------------- properties of the sleep count
\* C19: a call that has returned without any status 200 made max_attempts
\* attempts (none when max_attempts <= 0), slept once after each of them, the
\* last included, and returned None; a call whose k-th attempt had status 200
\* returned at that attempt after k-1 sleeps.  With max_attempts <= 0 the call
\* issued no GET, slept not at all, returned None, and its failure line has
\* the connection-failed hint.
C19_SleepAfterEveryFailure ==
    Returned =>
        /\ (\A i \in 1..Len(hist) : hist[i] # 200) =>
              /\ Len(hist) = Max(max_attempts, 0)
              /\ Len(sleeps) = Max(max_attempts, 0)
              /\ result = NoneV
        /\ \A k \in 1..Len(hist) : hist[k] = 200 =>
              /\ k = Len(hist)
              /\ Len(sleeps) = k - 1
        /\ max_attempts <= 0 =>
              /\ hist = <<>>
              /\ sleeps = <<>>
              /\ requests = {}
              /\ result = NoneV
              /\ hint

C19_Witness ==
    /\ Returned
    /\ max_attempts = 3
    /\ delay = 1
    /\ hist = <<202, 404, 500>>
    /\ sleeps = <<1, 1, 10>>
    /\ result = NoneV
    /\ ~hint

\* ------------------------------------------- properties of the guild phase
GuildPolls == PollsOf("/v1/guild")

\* The guild polls that have returned to main (the guild polls are the first
\* polls of a run).
GuildReturns == SubSeq(returns, 1, Min(Len(returns), Len(GuildPolls)))

\* What the guild polls returned so far contributes to a list of main: the
\* entries of the truthy values, in order, and nothing for the others.
RECURSIVE Contributed(_, _)
Contributed(k, field) ==
    IF k = 0 THEN <<>>
    ELSE Contributed(k - 1, field) \o
         (IF ~GuildReturns[k].truthy THEN <<>>
          ELSE IF field = "profileTarget" THEN collect_profile_targets(GuildReturns[k])
          ELSE collect_family_names(GuildReturns[k]))

TruthyGuildPolls ==
    LET idx == SelectSeq([k \in 1..Len(GuildReturns) |-> k],
                         LAMBDA k : GuildReturns[k].truthy)
    IN [j \in 1..Len(idx) |-> GuildPolls[idx[j]]]

\* C20: the guild polls are for the guilds of the roster, one each, in roster
\* order, all of them once the guild loop is over.  A guild whose poll
\* returned None or a falsy body adds nothing to the profile targets and the
\* family names and gets no throttle sleep: the throttle sleeps of the guild
\* phase are exactly for the polls that returned a truthy value.  The failure
\* lists and files hold identifiers of warming polls only, so no guild is
\* recorded as a failure.
C20_GuildPhase ==
    /\ Len(GuildPolls) <= Len(Roster)
    /\ \A i \in 1..Len(GuildPolls) :
         /\ polls[i] = GuildPolls[i]
         /\ GuildPolls[i].name = GUILDS[i]
    /\ mainpc \notin {"guilds", "guild_wait"} => Len(GuildPolls) = Len(Roster)
    /\ mainpc = "guild_wait" <=> Len(GuildReturns) < Len(GuildPolls)
    /\ all_profile_targets = Contributed(Len(GuildReturns), "profileTarget")
    /\ all_family_names = Contributed(Len(GuildReturns), "familyName")
    /\ SelectSeq(throttles, LAMBDA u : u.endpoint = "/v1/guild") = TruthyGuildPolls
    /\ Range(failed_profile_targets) \subseteq Range(ProfilePollNames)
    /\ Range(failed_searches) \subseteq Range(SearchPollQueries)
    /\ Range(files.failed_profiles.lines) \subseteq Range(ProfilePollNames)
    /\ Range(files.failed_searches.lines) \subseteq Range(SearchPollQueries)

\* The first guild gave an empty object, the second a record.
C20_Witness ==
    /\ mainpc = "profiles"
    /\ GuildReturns = <<EmptyDict, GuildA>>
    /\ all_profile_targets = <<"p1">>
    /\ all_family_names = <<FnAbc>>
    /\ throttles = <<build_url("/v1/guild", GUILDS[2], <<>>)>>

====
